---- MODULE Spec2Model ----
(***************************************************************************)
(* Model of the two map generators of Meteo de les Illes:                  *)
(*   generar_mapa_baleares.py    (prog = "mapa",   one render pass)        *)
(*   generar_minmax_baleares.py  (prog = "minmax", passes "min" and "max") *)
(*                                                                         *)
(* Units.  Longitudes and latitudes are integers in millidegrees, Mercator *)
(* coordinates are integers in metres, tile and tile-pixel coordinates are *)
(* integers in 1/10000 of a tile or pixel, canvas pixels are integers.     *)
(* Temperatures are integers in tenths of a degree.                        *)
(***************************************************************************)
EXTENDS Integers, Sequences, FiniteSets, TLC

VARIABLES prog, kind, pc, locs,
          static_calls, tiles_calls, static_result,
          tx, ty, fetched, pasted, placeholders, canvas_size, crop_box,
          base_map, transform,
          font, i, obs_fetches, log, placed_boxes, drawn, saved,
          pt, pixel, resp, temp_in, color

vars == <<prog, kind, pc, locs,
          static_calls, tiles_calls, static_result,
          tx, ty, fetched, pasted, placeholders, canvas_size, crop_box,
          base_map, transform,
          font, i, obs_fetches, log, placed_boxes, drawn, saved,
          pt, pixel, resp, temp_in, color>>

-----------------------------------------------------------------------------
(* Configuration constants of the programs.                                *)

WIDTH == 1200
HEIGHT == 800
LAT_MIN == 38500
LAT_MAX == 40200
LON_MIN == 1000
LON_MAX == 4500
ZOOM == 8
TILE_SIZE == 256

(* An observation: None, or a value in tenths of a degree.                 *)
None == [present |-> FALSE, value |-> 0]

Some(v) == [present |-> TRUE, value |-> v]

-----------------------------------------------------------------------------
(* Bounds of the model.                                                    *)

(* Number of locations in the list of one run.                             *)
MaxLocs == 3

-----------------------------------------------------------------------------
(* Arithmetic helpers of the host language.                                *)

Max(a, b) == IF a >= b THEN a ELSE b

Min(a, b) == IF a <= b THEN a ELSE b

Abs(a) == IF a >= 0 THEN a ELSE -a

(* Variant of int_div: rounds to the nearest integer.                      *)
int_round(a, b) ==
    IF a >= 0 THEN (2 * a + b) \div (2 * b) ELSE -((2 * (-a) + b) \div (2 * b))

(* int(a / b): truncation toward zero of a float quotient, b > 0.          *)
int_div(a, b) == IF a >= 0 THEN a \div b ELSE -((-a) \div b)

-----------------------------------------------------------------------------
(* Web Mercator utilities.                                                 *)

(* radians(lon) * RADIUS: 111319.49 m per degree.                          *)
lon_to_merc_x(lon) == (lon * 111319) \div 1000

(* RADIUS * ln(tan(pi/4 + radians(lat)/2)) in metres, for the latitudes    *)
(* the model uses.                                                         *)
MercYTable ==
    [l \in {-89900, 38000, 38500, 38501, 39000, 39526, 39535, 39543,
            39569, 39594, 39602, 39611, 39626, 40199, 40200, 40500,
            89900} |->
        CASE l = -89900 -> -44927335
          [] l = 38000 -> 4579426
          [] l = 38500 -> 4650302
          [] l = 38501 -> 4650444
          [] l = 39000 -> 4721672
          [] l = 39526 -> 4797299
          [] l = 39535 -> 4798598
          [] l = 39543 -> 4799753
          [] l = 39569 -> 4803507
          [] l = 39594 -> 4807118
          [] l = 39602 -> 4808273
          [] l = 39611 -> 4809574
          [] l = 39626 -> 4811742
          [] l = 40199 -> 4894903
          [] l = 40200 -> 4895048
          [] l = 40500 -> 4938869
          [] l = 89900 -> 44927335]

lat_to_merc_y(lat) == MercYTable[Max(Min(lat, 89900), -89900)]

(* (1 - ln(tan(lat) + 1/cos(lat)) / pi) / 2 * 2^8 in 1/10000 of a tile.    *)
YTileTable ==
    [l \in {38000, 38500, 38501, 39000, 39569, 39602, 39626,
            40199, 40200, 40500} |->
        CASE l = 38000 -> 987465
          [] l = 38500 -> 982937
          [] l = 38501 -> 982928
          [] l = 39000 -> 978378
          [] l = 39569 -> 973151
          [] l = 39602 -> 972846
          [] l = 39626 -> 972624
          [] l = 40199 -> 967312
          [] l = 40200 -> 967303
          [] l = 40500 -> 964504]

(* n = 2^zoom; xtile = (lon + 180) / 360 * n, in 1/10000 of a tile.        *)
lonlat_to_tile(lon, lat, zoom) ==
    <<((lon + 180000) * (2 ^ zoom)) \div 36, YTileTable[lat]>>

tile_to_pixel(xtile, ytile) == <<xtile * TILE_SIZE, ytile * TILE_SIZE>>

lonlat_to_pixel(lon, lat, zoom) ==
    LET t == lonlat_to_tile(lon, lat, zoom) IN tile_to_pixel(t[1], t[2])

-----------------------------------------------------------------------------
(* Base map: static image and tile mosaic.                                 *)

NoTransform == [min_x |-> 0, max_x |-> 0, min_y |-> 0, max_y |-> 0,
                width |-> 0, height |-> 0]

NoMap == [size |-> <<0, 0>>, src |-> "none", tiles |-> "none"]

(* The transform build_base_map_static returns.                            *)
StaticTransform(lat_min, lat_max, lon_min, lon_max, width, height) ==
    [min_x |-> lon_to_merc_x(lon_min), max_x |-> lon_to_merc_x(lon_max),
     min_y |-> lat_to_merc_y(lat_min), max_y |-> lat_to_merc_y(lat_max),
     width |-> width, height |-> height]

(* Corner pixels of the bbox in the tile pyramid, 1/10000 pixel.           *)
px_min_x == lonlat_to_pixel(LON_MIN, LAT_MIN, ZOOM)[1]

px_max_y == lonlat_to_pixel(LON_MIN, LAT_MIN, ZOOM)[2]

px_max_x == lonlat_to_pixel(LON_MAX, LAT_MAX, ZOOM)[1]

px_min_y == lonlat_to_pixel(LON_MAX, LAT_MAX, ZOOM)[2]

bbox_width == px_max_x - px_min_x

bbox_height == px_max_y - px_min_y

(* int(px // TILE_SIZE)                                                    *)
tile_x_min == px_min_x \div (TILE_SIZE * 10000)

tile_x_max == px_max_x \div (TILE_SIZE * 10000)

tile_y_min == px_min_y \div (TILE_SIZE * 10000)

tile_y_max == px_max_y \div (TILE_SIZE * 10000)

canvas_px_width == (tile_x_max - tile_x_min + 1) * TILE_SIZE

canvas_px_height == (tile_y_max - tile_y_min + 1) * TILE_SIZE

crop_left == (px_min_x - tile_x_min * TILE_SIZE * 10000) \div 10000

crop_top == (px_min_y - tile_y_min * TILE_SIZE * 10000) \div 10000

crop_right == crop_left + bbox_width \div 10000

crop_bottom == crop_top + bbox_height \div 10000

(* Variant of ResizedSize: the cropped canvas is returned as it is.        *)
ResizedSize_crop(box, width, height) == <<box[3] - box[1], box[4] - box[2]>>

(* Size of canvas.crop(box).resize((width, height)).                       *)
ResizedSize(box, width, height) == <<width, height>>

(* Variant of TilesTransform: pixel size taken from the tile canvas.       *)
TilesTransform_canvas(lat_min, lat_max, lon_min, lon_max, width, height) ==
    [min_x |-> lon_to_merc_x(lon_min), max_x |-> lon_to_merc_x(lon_max),
     min_y |-> lat_to_merc_y(lat_min), max_y |-> lat_to_merc_y(lat_max),
     width |-> canvas_px_width, height |-> canvas_px_height]

(* The transform build_base_map_tiles returns.                             *)
TilesTransform(lat_min, lat_max, lon_min, lon_max, width, height) ==
    [min_x |-> lon_to_merc_x(lon_min), max_x |-> lon_to_merc_x(lon_max),
     min_y |-> lat_to_merc_y(lat_min), max_y |-> lat_to_merc_y(lat_max),
     width |-> width, height |-> height]

(* Variant of NextTile: the inner range stops one row short.               *)
NextTile_exclusive(x, y) ==
    IF y < tile_y_max - 1 THEN <<x, y + 1>>
    ELSE IF x < tile_x_max THEN <<x + 1, tile_y_min>>
    ELSE <<tile_x_max + 1, tile_y_min>>

(* Variant of NextTile: the inner loop runs over tx.                       *)
NextTile_row_major(x, y) ==
    IF x < tile_x_max THEN <<x + 1, y>>
    ELSE IF y < tile_y_max THEN <<tile_x_min, y + 1>>
    ELSE <<tile_x_max + 1, tile_y_min>>

(* The loop position after tile (x, y): the inner loop runs over ty.       *)
NextTile(x, y) ==
    IF y < tile_y_max THEN <<x, y + 1>>
    ELSE IF x < tile_x_max THEN <<x + 1, tile_y_min>>
    ELSE <<tile_x_max + 1, tile_y_min>>

(* What download_tile returns for a fetch that succeeds or fails.          *)
download_tile(ok) == IF ok THEN "image" ELSE "placeholder"

(* Variant of paste: a placeholder tile is not pasted.                     *)
paste_skip_placeholder(canvas, tile, dx, dy) ==
    IF tile = "placeholder" THEN canvas ELSE Append(canvas, <<dx, dy>>)

(* canvas.paste(tile, (dx, dy)): the canvas is the list of pasted cells.   *)
paste(canvas, tile, dx, dy) == Append(canvas, <<dx, dy>>)

(* Summary of the n tiles pasted into the mosaic, bad of them placeholders. *)
TileSummary(n, bad) == IF bad = n THEN "placeholders" ELSE "images"

-----------------------------------------------------------------------------
(* Projection of a location into the canvas.                               *)

project_point_mercator(lon, lat, t) ==
    <<int_div((lon_to_merc_x(lon) - t.min_x) * t.width, t.max_x - t.min_x),
      int_div((t.max_y - lat_to_merc_y(lat)) * t.height, t.max_y - t.min_y)>>

(* The projection inlined in render_map: it scales by WIDTH and HEIGHT.    *)
render_map_project(lon, lat, t) ==
    <<int_div((lon_to_merc_x(lon) - t.min_x) * WIDTH, t.max_x - t.min_x),
      int_div((t.max_y - lat_to_merc_y(lat)) * HEIGHT, t.max_y - t.min_y)>>

-----------------------------------------------------------------------------
(* Observations, label text and font measurement.                          *)

(* What the weather service does with one request: the request raises (a   *)
(* network error or a bad status), it times out, the body comes without    *)
(* the temperature fields, or it carries them: 9.5 degrees now, 7.0 and    *)
(* 9.5 degrees as the minimum and maximum of the day.                      *)
Responses ==
    {[kind |-> "error", value |-> 0, tmin |-> 0, tmax |-> 0],
     [kind |-> "timeout", value |-> 0, tmin |-> 0, tmax |-> 0],
     [kind |-> "no_field", value |-> 0, tmin |-> 0, tmax |-> 0],
     [kind |-> "ok", value |-> 95, tmin |-> 70, tmax |-> 95]}

(* Variant of fetch_openmeteo: a body without the field reads as zero.     *)
fetch_openmeteo_zero(r) ==
    IF r.kind \in {"ok", "no_field"} THEN Some(r.value) ELSE None

(* fetch_openmeteo: the "temp" entry of the result.  Every exception is    *)
(* caught and a missing field reads as None; round(float(t), 1) leaves a   *)
(* value with one decimal as it is.                                        *)
fetch_openmeteo(r) == IF r.kind = "ok" THEN Some(r.value) ELSE None

(* fetch_minmax: the pair (tmin, tmax).                                    *)
fetch_minmax(r) ==
    IF r.kind = "ok" THEN <<Some(r.tmin), Some(r.tmax)>> ELSE <<None, None>>

(* Values an observation fetch can yield.                                  *)
ObsValues ==
    {fetch_openmeteo(r) : r \in Responses}
      \cup {fetch_minmax(r)[k] : r \in Responses, k \in 1..2}

(* str of a value with one decimal.                                        *)
str_tenths(v) ==
    (IF v < 0 THEN "-" ELSE "") \o ToString(Abs(v) \div 10) \o "."
      \o ToString(Abs(v) % 10)

(* The label text: sanitize_text turns the degree sign and C into " C" in  *)
(* the current-conditions map, the min/max program keeps them.             *)
label(p, temp) ==
    IF ~temp.present THEN "Sin datos"
    ELSE str_tenths(temp.value) \o (IF p = "mapa" THEN " C" ELSE "°C")

Fonts == {"nogetsize", "narrow", "wide"}

(* Number of decimal digits of n >= 0.                                     *)
Digits(n) == IF n < 10 THEN 1 ELSE IF n < 100 THEN 2 ELSE 3

(* len(text): "Sin datos", or the value with one decimal and a two         *)
(* character unit (" C" after sanitize_text, "°C" in the min/max program). *)
text_len(temp) ==
    IF ~temp.present THEN 9
    ELSE (IF temp.value < 0 THEN 1 ELSE 0) + Digits(Abs(temp.value) \div 10)
         + 2 + 2

(* fw of font.getsize(text), or of the fallback when getsize raises.       *)
font_width(f, len) ==
    CASE f = "nogetsize" -> len * 9
      [] f = "narrow" -> len * 6
      [] f = "wide" -> len * 11

-----------------------------------------------------------------------------
(* The colour gradient.  Stop temperatures are in whole degrees, colours   *)
(* are <<r, g, b>>.                                                        *)

stops ==
    << <<-10, <<132, 0, 168>> >>, <<-5, <<44, 0, 184>> >>,
       <<0, <<0, 90, 200>> >>, <<3, <<0, 150, 200>> >>,
       <<6, <<0, 180, 170>> >>, <<9, <<0, 200, 120>> >>,
       <<12, <<80, 200, 60>> >>, <<15, <<150, 200, 0>> >>,
       <<18, <<200, 180, 0>> >>, <<21, <<230, 150, 0>> >>,
       <<24, <<240, 120, 0>> >>, <<27, <<240, 90, 0>> >>,
       <<30, <<240, 60, 0>> >>, <<33, <<230, 30, 0>> >>,
       <<36, <<220, 0, 0>> >>, <<39, <<220, 0, 40>> >>,
       <<42, <<230, 0, 100>> >>, <<45, <<240, 0, 150>> >>,
       <<47, <<250, 0, 180>> >>, <<50, <<255, 0, 220>> >> >>

NoColor == <<-1, -1, -1>>

(* Variant of clamp: the value is used as it comes.                        *)
clamp_none(t) == t

(* max(-10, min(50, temp)), in tenths of a degree.                         *)
clamp(t) == Max(-10 * 10, Min(50 * 10, t))

(* t0 <= t <= t1 for the stop pair (n, n + 1); t in tenths.                *)
brackets(n, t) == stops[n][1] * 10 <= t /\ t <= stops[n + 1][1] * 10

(* Index of the pair at which the loop returns, 0 when it runs through.    *)
first_bracket(t) ==
    LET hit == {n \in 1..(Len(stops) - 1) : brackets(n, t)}
    IN IF hit = {} THEN 0 ELSE CHOOSE n \in hit : \A m \in hit : n <= m

(* Variant of channel: the interpolated value is rounded to the nearest    *)
(* integer.                                                                *)
channel_round(c0, c1, num, den) ==
    IF den = 0 THEN c0 ELSE int_round(c0 * den + num * (c1 - c0), den)

(* int(c0 + f * (c1 - c0)) with f = num / den, and f = 0 when den = 0.     *)
(* On the temperatures of ColorInputs the floating-point computation of    *)
(* the source gives exactly this integer.                                  *)
channel(c0, c1, num, den) ==
    IF den = 0 THEN c0 ELSE int_div(c0 * den + num * (c1 - c0), den)

temp_to_color(temp) ==
    IF ~temp.present THEN <<200, 200, 200>>
    ELSE LET t == clamp(temp.value)
             n == first_bracket(t)
         IN IF n = 0 THEN stops[Len(stops)][2]
            ELSE LET t0 == stops[n][1] * 10
                     c0 == stops[n][2]
                     t1 == stops[n + 1][1] * 10
                     c1 == stops[n + 1][2]
                 IN <<channel(c0[1], c1[1], t - t0, t1 - t0),
                      channel(c0[2], c1[2], t - t0, t1 - t0),
                      channel(c0[3], c1[3], t - t0, t1 - t0)>>

-----------------------------------------------------------------------------
(* Label geometry.  p is the program: the two differ in their constants.   *)

gap(p) == IF p = "mapa" THEN 12 ELSE 10

(* Variant of margin: the candidate is not expanded.                       *)
margin_none(p) == 0

margin(p) == IF p = "mapa" THEN 4 ELSE 3

box_w(p, fw) == IF p = "mapa" THEN Max(52, fw + 14) ELSE Max(46, fw + 12)

box_h(p) == IF p = "mapa" THEN 18 + 12 ELSE 16 + 10

box_x(p, x, w) ==
    IF x + gap(p) + w < WIDTH - 10 THEN x + gap(p) ELSE x - gap(p) - w

(* y - box_h // 2                                                          *)
box_y(p, y) == y - box_h(p) \div 2

(* Boxes are <<left, top, right, bottom>>.                                 *)
candidate(p, x, y, fw) ==
    LET w == box_w(p, fw)
        bx == box_x(p, x, w)
        by == box_y(p, y)
    IN <<bx - margin(p), by - margin(p),
         bx + w + margin(p), by + box_h(p) + margin(p)>>

(* Variant of hits: the second comparison uses the wrong edge of bx.       *)
hits_wrong_edge(c, bx) ==
    ~(c[3] < bx[1] \/ c[1] > bx[1] \/ c[4] < bx[2] \/ c[2] > bx[4])

(* The test of one recorded box bx against the candidate c.                *)
hits(c, bx) ==
    ~(c[3] < bx[1] \/ c[1] > bx[3] \/ c[4] < bx[2] \/ c[2] > bx[4])

(* Variant of overlaps: only the most recent box is tested.                *)
overlaps_last(c, placed) ==
    Len(placed) > 0 /\ hits(c, placed[Len(placed)])

(* The loop over the recorded boxes.                                       *)
overlaps(c, placed) == \E k \in 1..Len(placed) : hits(c, placed[k])

(* What draw_marker draws: it sizes the badge from len(text) again.        *)
draw_marker(x, y, len) ==
    LET w == Max(52, len * 9 + 14)
        h == 6 * 2 + 18 * 1
        bx == IF x + 12 + w < WIDTH - 10 THEN x + 12 ELSE x - 12 - w
        by == y - h \div 2
    IN [marker |-> <<x - 5, y - 5, x + 5, y + 5>>,
        shadow |-> <<bx + 2, by + 2, bx + w + 2, by + h + 2>>,
        badge |-> <<bx, by, bx + w, by + h>>]

(* What draw_badge draws once the candidate is accepted.                   *)
draw_badge(x, y, fw) ==
    LET w == box_w("minmax", fw)
        bx == box_x("minmax", x, w)
        by == box_y("minmax", y)
    IN [marker |-> <<x - 4, y - 4, x + 4, y + 4>>,
        shadow |-> <<bx + 2, by + 2, bx + w + 2, by + box_h("minmax") + 2>>,
        badge |-> <<bx, by, bx + w, by + box_h("minmax")>>]

-----------------------------------------------------------------------------
(* Inputs.                                                                 *)

Loc(lon, lat) == [lon |-> lon, lat |-> lat]

(* Palma at pixel (565, 299), a point 20 pixels north-east of it at        *)
(* (577, 283), and two points 20 pixels apart near the east edge of the    *)
(* canvas, at (1110, 299) and (1130, 299).                                 *)
LocSet == {Loc(2650, 39569), Loc(2684, 39602),
           Loc(4239, 39569), Loc(4297, 39569)}

(* CIUDADES: the ordered list of locations of one run.                     *)
LocLists == [1..MaxLocs -> LocSet]

NoPoint == Loc(0, 0)

NoPixel == <<-1, -1>>

(* Points inside, on the edge of and outside the bounding box.             *)
ProjPoints ==
    {Loc(lon, lat) : lon \in {900, 1000, 1001, 2650, 2708, 4499, 4500, 4600},
                     lat \in {38000, 38500, 38501, 39569, 39626, 40199,
                              40200, 40500}}

TempRange == 60

(* Temperatures given to temp_to_color: none, every whole degree from      *)
(* -TempRange to TempRange, the values of Responses, and two values far    *)
(* outside the stops (-100 and 1000 degrees).                              *)
ColorInputs ==
    {None} \cup {Some(10 * d) : d \in (-TempRange)..TempRange}
      \cup ObsValues \cup {Some(-1000), Some(10000)}

out_name(p, k) ==
    CASE p = "mapa" -> "mapa_baleares_openmeteo.png"
      [] p = "minmax" /\ k = "min" -> "mapa_baleares_min.png"
      [] p = "minmax" /\ k = "max" -> "mapa_baleares_max.png"

-----------------------------------------------------------------------------
(* State at the start of a render pass: every local of the pass is fresh.  *)

PassStart ==
    /\ static_calls = 0
    /\ tiles_calls = 0
    /\ static_result = "none"
    /\ tx = 0
    /\ ty = 0
    /\ fetched = << >>
    /\ pasted = << >>
    /\ placeholders = 0
    /\ canvas_size = <<0, 0>>
    /\ crop_box = <<0, 0, 0, 0>>
    /\ base_map = NoMap
    /\ transform = NoTransform
    /\ font = "none"
    /\ i = 0
    /\ obs_fetches = << >>
    /\ log = << >>
    /\ placed_boxes = << >>
    /\ drawn = << >>

Init ==
    /\ prog \in {"mapa", "minmax"}
    /\ kind = IF prog = "mapa" THEN "now" ELSE "min"
    /\ pc = "static"
    /\ locs \in LocLists
    /\ PassStart
    /\ saved = {}
    /\ pt = NoPoint
    /\ pixel = NoPixel
    /\ resp = "none"
    /\ temp_in = None
    /\ color = NoColor

-----------------------------------------------------------------------------
(* Base map acquisition.                                                   *)

(* build_base_map_static returns: the image has the requested size.        *)
StaticOk ==
    /\ pc = "static"
    /\ static_calls' = static_calls + 1
    /\ static_result' = "ok"
    /\ base_map' = [size |-> <<WIDTH, HEIGHT>>, src |-> "static",
                    tiles |-> "none"]
    /\ transform' = StaticTransform(LAT_MIN, LAT_MAX, LON_MIN, LON_MAX,
                                    WIDTH, HEIGHT)
    /\ pc' = "fonts"
    /\ UNCHANGED <<prog, kind, locs, tiles_calls, tx, ty, fetched, pasted,
                   placeholders, canvas_size, crop_box, font, i,
                   obs_fetches, log, placed_boxes, drawn, saved, pt, pixel,
                   resp, temp_in, color>>

(* build_base_map_static raises (network error, bad status, bad image):    *)
(* the handler goes on to the tile mosaic.                                 *)
StaticFails ==
    /\ pc = "static"
    /\ static_calls' = static_calls + 1
    /\ static_result' = "failed"
    /\ pc' = "tiles"
    /\ UNCHANGED <<prog, kind, locs, tiles_calls, tx, ty, fetched, pasted,
                   placeholders, canvas_size, crop_box, base_map, transform,
                   font, i, obs_fetches, log, placed_boxes, drawn, saved,
                   pt, pixel, resp, temp_in, color>>

(* build_base_map_tiles up to the creation of the canvas.                  *)
TilesBegin ==
    /\ pc = "tiles"
    /\ tiles_calls' = tiles_calls + 1
    /\ canvas_size' = <<canvas_px_width, canvas_px_height>>
    /\ tx' = tile_x_min
    /\ ty' = tile_y_min
    /\ pc' = "tile_loop"
    /\ UNCHANGED <<prog, kind, locs, static_calls, static_result, fetched,
                   pasted, placeholders, crop_box, base_map, transform,
                   font, i, obs_fetches, log, placed_boxes, drawn, saved,
                   pt, pixel, resp, temp_in, color>>

(* One iteration of the tile loops: download_tile and paste.               *)
TileStep ==
    /\ pc = "tile_loop"
    /\ \E ok \in BOOLEAN :
         LET tile == download_tile(ok)
             dx == (tx - tile_x_min) * TILE_SIZE
             dy == (ty - tile_y_min) * TILE_SIZE
             nxt == NextTile(tx, ty)
         IN /\ fetched' = Append(fetched, <<tx, ty>>)
            /\ pasted' = paste(pasted, tile, dx, dy)
            /\ placeholders' =
                 IF tile = "placeholder" THEN placeholders + 1
                 ELSE placeholders
            /\ tx' = nxt[1]
            /\ ty' = nxt[2]
            /\ pc' = IF nxt[1] > tile_x_max THEN "tile_crop" ELSE "tile_loop"
    /\ UNCHANGED <<prog, kind, locs, static_calls, tiles_calls,
                   static_result, canvas_size, crop_box, base_map,
                   transform, font, i, obs_fetches, log, placed_boxes,
                   drawn, saved, pt, pixel,
                   resp, temp_in, color>>

(* build_base_map_tiles after the loops: crop, resize, transform, return.  *)
(* The canvas and the loop variables are locals and end here.              *)
TilesFinish ==
    /\ pc = "tile_crop"
    /\ LET box == <<crop_left, crop_top, crop_right, crop_bottom>>
       IN /\ crop_box' = box
          /\ base_map' = [size |-> ResizedSize(box, WIDTH, HEIGHT),
                          src |-> "tiles",
                          tiles |-> TileSummary(Len(pasted), placeholders)]
    /\ transform' = TilesTransform(LAT_MIN, LAT_MAX, LON_MIN, LON_MAX,
                                   WIDTH, HEIGHT)
    /\ tx' = 0
    /\ ty' = 0
    /\ pasted' = << >>
    /\ placeholders' = 0
    /\ canvas_size' = <<0, 0>>
    /\ pc' = "fonts"
    /\ UNCHANGED <<prog, kind, locs, static_calls, tiles_calls,
                   static_result, fetched, font, i, obs_fetches, log,
                   placed_boxes, drawn, saved, pt, pixel,
                   resp, temp_in, color>>

-----------------------------------------------------------------------------
(* Title bar, fonts and the list of accepted boxes.                        *)

(* The font object decides whether getsize exists and what it measures.    *)
LoadFonts ==
    /\ pc = "fonts"
    /\ font' \in Fonts
    /\ placed_boxes' = << >>
    /\ i' = 1
    /\ pc' = "cities"
    /\ UNCHANGED <<prog, kind, locs, static_calls, tiles_calls,
                   static_result, tx, ty, fetched, pasted, placeholders,
                   canvas_size, crop_box, base_map, transform, obs_fetches,
                   log, drawn, saved, pt, pixel,
                   resp, temp_in, color>>

-----------------------------------------------------------------------------
(* One location of the list.                                               *)

LogEntry(n, x, y, temp, fw, c, ok) ==
    [loc |-> n, anchor |-> <<x, y>>, temp |-> temp, fw |-> fw, cand |-> c,
     accepted |-> ok]

(* Variant of keep_or_append: the candidate is recorded even when it is    *)
(* rejected.                                                               *)
keep_or_append_always(placed, cand, ov) == Append(placed, cand)

(* The list of accepted boxes after one location: "continue" on an overlap *)
(* (draw_badge returns False), append otherwise.                           *)
keep_or_append(placed, cand, ov) ==
    IF ov THEN placed ELSE Append(placed, cand)

(* What is drawn for location n besides the rectangles: the fill colour of *)
(* the marker and the text of the badge.                                   *)
Drawing(n, temp, text) ==
    [loc |-> n, temp |-> temp, color |-> temp_to_color(temp), text |-> text]

(* Body of the loop over CIUDADES in main of the current-conditions map.   *)
MainCity ==
    /\ prog = "mapa"
    /\ pc = "cities"
    /\ i <= Len(locs)
    /\ \E r \in Responses :
         LET c == locs[i]
             xy == project_point_mercator(c.lon, c.lat, transform)
             temp_val == fetch_openmeteo(r)
             len == text_len(temp_val)
             fw == font_width(font, len)
             cand == candidate("mapa", xy[1], xy[2], fw)
             ov == overlaps(cand, placed_boxes)
         IN /\ resp' = r.kind
            /\ obs_fetches' = Append(obs_fetches, <<c.lat, c.lon>>)
            /\ log' = Append(log, LogEntry(i, xy[1], xy[2], temp_val, fw,
                                           cand, ~ov))
            /\ placed_boxes' = keep_or_append(placed_boxes, cand, ov)
            /\ drawn' =
                 IF ov THEN drawn
                 ELSE Append(drawn,
                             Drawing(i, temp_val, label("mapa", temp_val))
                               @@ draw_marker(xy[1], xy[2], len))
    /\ i' = i + 1
    /\ UNCHANGED <<prog, kind, pc, locs, static_calls, tiles_calls,
                   static_result, tx, ty, fetched, pasted, placeholders,
                   canvas_size, crop_box, base_map, transform, font, saved,
                   pt, pixel, temp_in, color>>

(* Body of the loop over CIUDADES in render_map, with draw_badge.          *)
RenderMapCity ==
    /\ prog = "minmax"
    /\ pc = "cities"
    /\ i <= Len(locs)
    /\ \E r \in Responses :
         LET c == locs[i]
             xy == render_map_project(c.lon, c.lat, transform)
             tmin_tmax == fetch_minmax(r)
             temp == IF kind = "min" THEN tmin_tmax[1] ELSE tmin_tmax[2]
             len == text_len(temp)
             fw == font_width(font, len)
             cand == candidate("minmax", xy[1], xy[2], fw)
             ov == overlaps(cand, placed_boxes)
         IN /\ resp' = r.kind
            /\ obs_fetches' = Append(obs_fetches, <<c.lat, c.lon>>)
            /\ log' = Append(log, LogEntry(i, xy[1], xy[2], temp, fw,
                                           cand, ~ov))
            /\ placed_boxes' = keep_or_append(placed_boxes, cand, ov)
            /\ drawn' =
                 IF ov THEN drawn
                 ELSE Append(drawn,
                             Drawing(i, temp, label("minmax", temp))
                               @@ draw_badge(xy[1], xy[2], fw))
    /\ i' = i + 1
    /\ UNCHANGED <<prog, kind, pc, locs, static_calls, tiles_calls,
                   static_result, tx, ty, fetched, pasted, placeholders,
                   canvas_size, crop_box, base_map, transform, font, saved,
                   pt, pixel, temp_in, color>>

-----------------------------------------------------------------------------
(* Legend, save and the end of the pass.                                   *)

SaveImage ==
    /\ pc = "cities"
    /\ i > Len(locs)
    /\ saved' = saved \cup {out_name(prog, kind)}
    /\ pc' = "saved"
    /\ UNCHANGED <<prog, kind, locs, static_calls, tiles_calls,
                   static_result, tx, ty, fetched, pasted, placeholders,
                   canvas_size, crop_box, base_map, transform, font, i,
                   obs_fetches, log, placed_boxes, drawn, pt, pixel,
                   resp, temp_in, color>>

(* main of the min/max program calls render_map a second time.             *)
NextRender ==
    /\ pc = "saved"
    /\ prog = "minmax"
    /\ kind = "min"
    /\ kind' = "max"
    /\ pc' = "static"
    /\ static_calls' = 0
    /\ tiles_calls' = 0
    /\ static_result' = "none"
    /\ base_map' = NoMap
    /\ transform' = NoTransform
    /\ crop_box' = <<0, 0, 0, 0>>
    /\ font' = "none"
    /\ i' = 0
    /\ obs_fetches' = << >>
    /\ log' = << >>
    /\ placed_boxes' = << >>
    /\ drawn' = << >>
    /\ fetched' = << >>
    /\ resp' = "none"
    /\ UNCHANGED <<prog, locs, tx, ty, pasted, placeholders, canvas_size,
                   saved, pt, pixel, temp_in, color>>

Exit ==
    /\ pc = "saved"
    /\ ~(prog = "minmax" /\ kind = "min")
    /\ pc' = "done"
    /\ UNCHANGED <<prog, kind, locs, static_calls, tiles_calls,
                   static_result, tx, ty, fetched, pasted, placeholders,
                   canvas_size, crop_box, base_map, transform, font, i,
                   obs_fetches, log, placed_boxes, drawn, saved, pt, pixel,
                   resp, temp_in, color>>

Next ==
    \/ StaticOk
    \/ StaticFails
    \/ TilesBegin
    \/ TileStep
    \/ TilesFinish
    \/ LoadFonts
    \/ MainCity
    \/ RenderMapCity
    \/ SaveImage
    \/ NextRender
    \/ Exit

Spec == Init /\ [][Next]_vars

-----------------------------------------------------------------------------
(* Projection of single points, as a pure function of the transform.       *)

InitProj ==
    /\ prog \in {"mapa", "minmax"}
    /\ kind = IF prog = "mapa" THEN "now" ELSE "min"
    /\ pc = "project"
    /\ locs = << >>
    /\ PassStart
    /\ saved = {}
    /\ pt \in ProjPoints
    /\ pixel = NoPixel
    /\ resp = "none"
    /\ temp_in = None
    /\ color = NoColor

(* The base map is built on either path before any point is projected.     *)
ProjStatic ==
    /\ pc = "project"
    /\ transform = NoTransform
    /\ transform' = StaticTransform(LAT_MIN, LAT_MAX, LON_MIN, LON_MAX,
                                    WIDTH, HEIGHT)
    /\ static_result' = "ok"
    /\ UNCHANGED <<prog, kind, pc, locs, static_calls, tiles_calls, tx, ty,
                   fetched, pasted, placeholders, canvas_size, crop_box,
                   base_map, font, i, obs_fetches, log, placed_boxes, drawn,
                   saved, pt, pixel, resp, temp_in, color>>

ProjTiles ==
    /\ pc = "project"
    /\ transform = NoTransform
    /\ transform' = TilesTransform(LAT_MIN, LAT_MAX, LON_MIN, LON_MAX,
                                   WIDTH, HEIGHT)
    /\ static_result' = "failed"
    /\ UNCHANGED <<prog, kind, pc, locs, static_calls, tiles_calls, tx, ty,
                   fetched, pasted, placeholders, canvas_size, crop_box,
                   base_map, font, i, obs_fetches, log, placed_boxes, drawn,
                   saved, pt, pixel, resp, temp_in, color>>

ProjectPoint ==
    /\ prog = "mapa"
    /\ pc = "project"
    /\ transform # NoTransform
    /\ pixel' = project_point_mercator(pt.lon, pt.lat, transform)
    /\ pc' = "projected"
    /\ UNCHANGED <<prog, kind, locs, static_calls, tiles_calls,
                   static_result, tx, ty, fetched, pasted, placeholders,
                   canvas_size, crop_box, base_map, transform, font, i,
                   obs_fetches, log, placed_boxes, drawn, saved, pt, resp,
                   temp_in, color>>

RenderMapProject ==
    /\ prog = "minmax"
    /\ pc = "project"
    /\ transform # NoTransform
    /\ pixel' = render_map_project(pt.lon, pt.lat, transform)
    /\ pc' = "projected"
    /\ UNCHANGED <<prog, kind, locs, static_calls, tiles_calls,
                   static_result, tx, ty, fetched, pasted, placeholders,
                   canvas_size, crop_box, base_map, transform, font, i,
                   obs_fetches, log, placed_boxes, drawn, saved, pt, resp,
                   temp_in, color>>

NextProj == ProjStatic \/ ProjTiles \/ ProjectPoint \/ RenderMapProject

SpecProj == InitProj /\ [][NextProj]_vars

-----------------------------------------------------------------------------
(* The colour of single temperatures, as a pure function.                  *)

InitColor ==
    /\ prog \in {"mapa", "minmax"}
    /\ kind = IF prog = "mapa" THEN "now" ELSE "min"
    /\ pc = "color"
    /\ locs = << >>
    /\ PassStart
    /\ saved = {}
    /\ pt = NoPoint
    /\ pixel = NoPixel
    /\ resp = "none"
    /\ temp_in \in ColorInputs
    /\ color = NoColor

(* The two programs carry the same temp_to_color.                          *)
TempToColor ==
    /\ pc = "color"
    /\ color' = temp_to_color(temp_in)
    /\ pc' = "colored"
    /\ UNCHANGED <<prog, kind, locs, static_calls, tiles_calls,
                   static_result, tx, ty, fetched, pasted, placeholders,
                   canvas_size, crop_box, base_map, transform, font, i,
                   obs_fetches, log, placed_boxes, drawn, saved, pt, pixel,
                   resp, temp_in>>

NextColor == TempToColor

SpecColor == InitColor /\ [][NextColor]_vars

-----------------------------------------------------------------------------
(* Placement of pairs of locations whose anchors are 20 pixels apart, at   *)
(* positions across the canvas and in every direction.                     *)

(* A longitude that projects to pixel column x.                            *)
LonOfPx(x) == 1000 + (x * 35) \div 12 + 1

(* A latitude that projects to pixel row y, for rows around Palma's.       *)
LatOfPy(y) ==
    CASE y = 279 -> 39611
      [] y = 283 -> 39602
      [] y = 287 -> 39594
      [] y = 299 -> 39569
      [] y = 311 -> 39543
      [] y = 315 -> 39535
      [] y = 319 -> 39526

(* Columns of the first anchor: mid canvas, and around the columns where   *)
(* the badge changes side.                                                 *)
PairBaseX == {565, 1060, 1075, 1090, 1105, 1120}

(* The integer offsets of length 20.                                       *)
Offsets20 ==
    {d \in (-20..20) \X (-20..20) : d[1] * d[1] + d[2] * d[2] = 400}

PairLists ==
    {<<Loc(LonOfPx(x), LatOfPy(299)),
       Loc(LonOfPx(x + d[1]), LatOfPy(299 + d[2]))>> :
         x \in PairBaseX, d \in Offsets20}

InitPair ==
    /\ prog \in {"mapa", "minmax"}
    /\ kind = IF prog = "mapa" THEN "now" ELSE "min"
    /\ pc = "static"
    /\ locs \in PairLists
    /\ PassStart
    /\ saved = {}
    /\ pt = NoPoint
    /\ pixel = NoPixel
    /\ resp = "none"
    /\ temp_in = None
    /\ color = NoColor

NextPair == StaticOk \/ LoadFonts \/ MainCity \/ RenderMapCity

SpecPair == InitPair /\ [][NextPair]_vars

-----------------------------------------------------------------------------
(* Properties.                                                             *)

(* One box lies strictly left of, right of, above or below the other.      *)
StrictlyApart(r, q) ==
    r[3] < q[1] \/ r[1] > q[3] \/ r[4] < q[2] \/ r[2] > q[4]

Rejected == {n \in 1..Len(log) : ~log[n].accepted}

Accepted == {n \in 1..Len(log) : log[n].accepted}

PassOver == pc \in {"saved", "done"}

(* C1: after a placement pass, in both programs, no two boxes of the       *)
(* accepted-box list intersect: each pair is strictly apart on some side.  *)
C1_NoTwoAcceptedBoxesIntersect ==
    \A a, b \in 1..Len(placed_boxes) :
        a # b => StrictlyApart(placed_boxes[a], placed_boxes[b])

(* A finished pass of draw_badge with two accepted boxes and a rejection.  *)
C1_Witness ==
    /\ PassOver
    /\ prog = "minmax"
    /\ Len(placed_boxes) >= 2
    /\ Rejected # {}

(* C2: when the static request fails and every tile fetch fails, the pass  *)
(* does not save an output image.                                          *)
C2_NoOutputWhenAllTilesFail ==
    (static_result = "failed" /\ base_map.src = "tiles"
        /\ base_map.tiles = "placeholders")
    => out_name(prog, kind) \notin saved

(* C3: the static path is attempted first and once; when it fails the tile *)
(* path is invoked exactly once and returns a raster of the requested      *)
(* size; when it succeeds the tile path is not invoked and no tile is      *)
(* fetched.                                                                *)
C3_FallbackExactlyOnce ==
    /\ static_calls <= 1
    /\ tiles_calls <= 1
    /\ tiles_calls = 1 => (static_calls = 1 /\ static_result = "failed")
    /\ static_result # "failed" => (tiles_calls = 0 /\ fetched = << >>)
    /\ pc \in {"fonts", "cities", "saved", "done"} =>
         /\ static_calls = 1
         /\ static_result = "failed" =>
              /\ tiles_calls = 1
              /\ base_map.src = "tiles"
              /\ base_map.size = <<WIDTH, HEIGHT>>
         /\ static_result = "ok" =>
              /\ tiles_calls = 0
              /\ base_map.src = "static"

(* A finished pass whose static request failed.                            *)
C3_Witness ==
    /\ PassOver
    /\ static_result = "failed"
    /\ tiles_calls = 1
    /\ Len(fetched) > 0

(* The transform of the requested bounding box and output size.            *)
RequestedTransform ==
    [min_x |-> lon_to_merc_x(LON_MIN), max_x |-> lon_to_merc_x(LON_MAX),
     min_y |-> lat_to_merc_y(LAT_MIN), max_y |-> lat_to_merc_y(LAT_MAX),
     width |-> WIDTH, height |-> HEIGHT]

(* C4: whichever path built the base map, the transform is the one of the  *)
(* requested bounding box and size, and every location is projected to the *)
(* pixel that transform gives.                                             *)
C4_TransformPathIndependent ==
    /\ base_map.src # "none" => transform = RequestedTransform
    /\ \A n \in 1..Len(log) :
         log[n].anchor = project_point_mercator(locs[n].lon, locs[n].lat,
                                                RequestedTransform)

(* A location projected on a base map built from tiles.                    *)
C4_Witness ==
    /\ base_map.src = "tiles"
    /\ Len(log) >= 1

StrictlyInside(q) ==
    /\ LON_MIN < q.lon
    /\ q.lon < LON_MAX
    /\ LAT_MIN < q.lat
    /\ q.lat < LAT_MAX

(* C5: a point strictly inside the bounding box projects to a pixel with   *)
(* 0 <= px < width and 0 <= py < height.                                   *)
C5_InsideProjectsInsideCanvas ==
    (pc = "projected" /\ StrictlyInside(pt)) =>
        /\ 0 <= pixel[1]
        /\ pixel[1] < WIDTH
        /\ 0 <= pixel[2]
        /\ pixel[2] < HEIGHT

(* The innermost south-east point projects to the last pixel.              *)
C5_Witness ==
    /\ pc = "projected"
    /\ StrictlyInside(pt)
    /\ pixel = <<WIDTH - 1, HEIGHT - 1>>

(* C6: placement is greedy first-fit over input order: a location is       *)
(* accepted exactly when its candidate box is strictly apart from the box  *)
(* of every location accepted before it, and the accepted-box list is the  *)
(* list of those boxes in input order.                                     *)
C6_GreedyFirstFit ==
    /\ \A n \in 1..Len(log) :
         /\ log[n].loc = n
         /\ log[n].cand = candidate(prog, log[n].anchor[1], log[n].anchor[2],
                                    log[n].fw)
         /\ log[n].accepted <=>
              \A m \in 1..(n - 1) :
                  log[m].accepted => StrictlyApart(log[n].cand, log[m].cand)
    /\ Len(placed_boxes) = Cardinality(Accepted)
    /\ \A k \in 1..Len(placed_boxes) :
         \E n \in Accepted :
             /\ Cardinality({m \in Accepted : m <= n}) = k
             /\ placed_boxes[k] = log[n].cand

(* Two accepted locations, then one rejected because of the first only.    *)
C6_Witness ==
    /\ Len(log) >= 3
    /\ log[1].accepted
    /\ log[2].accepted
    /\ ~log[3].accepted
    /\ StrictlyApart(log[3].cand, log[2].cand)

Apart20(a, b) ==
    (a[1] - b[1]) * (a[1] - b[1]) + (a[2] - b[2]) * (a[2] - b[2]) = 400

(* The badge is on the right of its anchor.                                *)
RightSide(e) == e.cand[1] > e.anchor[1]

SameSideOrFacing(a, b) ==
    \/ RightSide(a) = RightSide(b)
    \/ RightSide(a) /\ ~RightSide(b) /\ b.anchor[1] - a.anchor[1] >= 16
    \/ ~RightSide(a) /\ RightSide(b) /\ a.anchor[1] - b.anchor[1] >= 16

WestCol == lonlat_to_tile(LON_MIN, LAT_MIN, ZOOM)[1] \div 10000

EastCol == lonlat_to_tile(LON_MAX, LAT_MAX, ZOOM)[1] \div 10000

NorthRow == lonlat_to_tile(LON_MAX, LAT_MAX, ZOOM)[2] \div 10000

SouthRow == lonlat_to_tile(LON_MIN, LAT_MIN, ZOOM)[2] \div 10000

TileRect == {<<x, y>> : x \in WestCol..EastCol, y \in NorthRow..SouthRow}

FetchedSet == {fetched[k] : k \in 1..Len(fetched)}

TileLoopsOver == tiles_calls = 1 /\ pc # "tile_loop"

(* C8: build_base_map_tiles fetches exactly the tiles of the rectangle     *)
(* between the tile columns of the west and east edges and the tile rows   *)
(* of the north and south edges: each of them once, and no other tile.     *)
C8_FetchesExactlyTheTileRectangle ==
    /\ FetchedSet \subseteq TileRect
    /\ \A j, k \in 1..Len(fetched) : j # k => fetched[j] # fetched[k]
    /\ TileLoopsOver => FetchedSet = TileRect

(* The loops are over and the twelve tiles 128..131 x 96..98 are fetched.  *)
C8_Witness ==
    /\ pc = "tile_crop"
    /\ Len(fetched) = 12
    /\ fetched[1] = <<128, 96>>
    /\ <<131, 98>> \in FetchedSet

(* Observations are fetched in the order of the list of locations.         *)
ObsInListOrder ==
    /\ Len(obs_fetches) <= Len(locs)
    /\ \A n \in 1..Len(obs_fetches) :
         obs_fetches[n] = <<locs[n].lat, locs[n].lon>>

(* C9 as stated: tiles are fetched in row-major order (a whole tile row,   *)
(* in increasing x, before the next row) and observations in list order.   *)
C9_RowMajorTileOrder ==
    /\ \A k \in 1..(Len(fetched) - 1) :
         \/ /\ fetched[k + 1][2] = fetched[k][2]
            /\ fetched[k + 1][1] = fetched[k][1] + 1
         \/ /\ fetched[k + 1][2] = fetched[k][2] + 1
            /\ fetched[k][1] = tile_x_max
            /\ fetched[k + 1][1] = tile_x_min
    /\ ObsInListOrder

(* C9 amended: tiles are fetched one at a time in column-major order (a    *)
(* whole tile column x, in increasing y, before the next column), and      *)
(* observations one at a time in the order of the list of locations.       *)
C9_ColumnMajorTileOrder ==
    /\ Len(fetched) > 0 => fetched[1] = <<tile_x_min, tile_y_min>>
    /\ \A k \in 1..(Len(fetched) - 1) :
         \/ /\ fetched[k + 1][1] = fetched[k][1]
            /\ fetched[k + 1][2] = fetched[k][2] + 1
         \/ /\ fetched[k + 1][1] = fetched[k][1] + 1
            /\ fetched[k][2] = tile_y_max
            /\ fetched[k + 1][2] = tile_y_min
    /\ ObsInListOrder

(* A finished pass that fetched every tile and every observation.          *)
C9_Witness ==
    /\ PassOver
    /\ Len(fetched) = 12
    /\ fetched[2] = <<128, 97>>
    /\ Len(obs_fetches) = Len(locs)
    /\ \E n \in 2..Len(locs) : locs[n] # locs[1]

(* C10: a failed tile fetch is replaced by a placeholder and the mosaic    *)
(* goes on: every tile fetched so far is pasted, all tiles of the range    *)
(* are fetched and pasted whatever the number of failures, and the tile    *)
(* path returns a raster and a transform.                                  *)
C10_FailedTileDoesNotAbortMosaic ==
    /\ pc \in {"tile_loop", "tile_crop"} =>
         /\ Len(pasted) = Len(fetched)
         /\ placeholders <= Len(pasted)
         /\ canvas_size = <<canvas_px_width, canvas_px_height>>
    /\ pc = "tile_crop" =>
         {<<tile_x_min * TILE_SIZE + q[1], tile_y_min * TILE_SIZE + q[2]>> :
              q \in {pasted[k] : k \in 1..Len(pasted)}}
         = {<<t[1] * TILE_SIZE, t[2] * TILE_SIZE>> : t \in TileRect}
    /\ base_map.src = "tiles" =>
         /\ base_map.size = <<WIDTH, HEIGHT>>
         /\ transform # NoTransform

(* The loops end with some, but not all, tiles replaced by placeholders.   *)
C10_Witness ==
    /\ pc = "tile_crop"
    /\ placeholders > 0
    /\ placeholders < Len(pasted)
    /\ Len(pasted) = 12

FailedResponses == {"error", "timeout", "no_field"}

(* C11: an observation request that raises, times out or answers without   *)
(* the temperature field yields an absent value; whatever is drawn for an   *)
(* absent value has the gray fill (200, 200, 200) and the text "Sin datos"; *)
(* the loop goes on to the next location after every fetch, and the pass    *)
(* ends having handled every location and saved its output.                 *)
C11_FailedFetchYieldsNoData ==
    /\ (Len(log) > 0 /\ resp \in FailedResponses) =>
         ~log[Len(log)].temp.present
    /\ \A n \in 1..Len(drawn) :
         ~drawn[n].temp.present =>
           /\ drawn[n].color = <<200, 200, 200>>
           /\ drawn[n].text = "Sin datos"
    /\ pc = "cities" => i = Len(log) + 1
    /\ PassOver =>
         /\ Len(log) = Len(locs)
         /\ out_name(prog, kind) \in saved

(* The first fetch gave no value and its gray label was drawn, the second   *)
(* gave a value, the last one timed out and its label was drawn too, and    *)
(* the output is saved.                                                     *)
C11_Witness ==
    /\ pc = "saved"
    /\ resp = "timeout"
    /\ Len(log) = Len(locs)
    /\ ~log[1].temp.present
    /\ log[1].accepted
    /\ log[2].temp.present
    /\ ~log[Len(log)].temp.present
    /\ log[Len(log)].accepted
    /\ drawn[Len(drawn)].loc = Len(log)
    /\ drawn[Len(drawn)].color = <<200, 200, 200>>
    /\ out_name(prog, kind) \in saved

(* C12: temp_to_color clamps its input to the stops: every value at or     *)
(* below -10 degrees gets the colour of -10 degrees, which is the colour   *)
(* of the first stop, and every value at or above 50 degrees gets the      *)
(* colour of the last stop, (255, 0, 220).                                 *)
C12_ClampsToStopDomain ==
    (pc = "colored" /\ temp_in.present) =>
      /\ temp_in.value <= -10 * 10 =>
           /\ color = temp_to_color(Some(-10 * 10))
           /\ color = stops[1][2]
      /\ temp_in.value >= 50 * 10 =>
           /\ color = stops[Len(stops)][2]
           /\ color = <<255, 0, 220>>

(* The colour of a value below the first stop has been computed.           *)
C12_Witness ==
    /\ pc = "colored"
    /\ temp_in.present
    /\ temp_in.value < -10 * 10
    /\ color = <<132, 0, 168>>

(* The value lies within the stops.                                        *)
InDomain == temp_in.present /\ temp_in.value >= -100 /\ temp_in.value <= 500

(* Numerator of c0 + f * (c1 - c0) over the denominator t1 - t0, for       *)
(* channel k of the first stop pair that brackets t.                       *)
InterpNum(t, k) ==
    LET n == first_bracket(t)
    IN stops[n][2][k] * (stops[n + 1][1] * 10 - stops[n][1] * 10)
         + (t - stops[n][1] * 10) * (stops[n + 1][2][k] - stops[n][2][k])

InterpDen(t) ==
    LET n == first_bracket(t) IN stops[n + 1][1] * 10 - stops[n][1] * 10

(* C13 as stated: each channel is the interpolated value rounded to the    *)
(* nearest integer, that is, it differs from it by at most one half.       *)
C13_ChannelsRounded ==
    (pc = "colored" /\ InDomain) =>
      \A k \in 1..3 :
        Abs(2 * InterpNum(temp_in.value, k)
              - 2 * color[k] * InterpDen(temp_in.value))
          <= InterpDen(temp_in.value)

(* C13: for a present value within the stops whose first bracketing stop   *)
(* pair is (t0, c0), (t1, c1), each channel is the interpolated value      *)
(* c0 + f * (c1 - c0) truncated to an integer: the largest integer not     *)
(* above it.                                                               *)
C13_ChannelsTruncated ==
    (pc = "colored" /\ InDomain) =>
      \A k \in 1..3 :
        /\ color[k] * InterpDen(temp_in.value)
             <= InterpNum(temp_in.value, k)
        /\ InterpNum(temp_in.value, k)
             < (color[k] + 1) * InterpDen(temp_in.value)

(* 10 degrees lies a third of the way from (0, 200, 120) to (80, 200, 60): *)
(* the red channel, 26.67, comes out as 26.                                *)
C13_Witness ==
    /\ pc = "colored"
    /\ temp_in = Some(100)
    /\ color = <<26, 200, 100>>

(* One step of a pass, seen from the list of accepted boxes.               *)
C14_Step ==
    /\ Len(log) = 0 => (placed_boxes = << >> /\ drawn = << >>)
    /\ Len(log') = Len(log) + 1 =>
         LET e == log'[Len(log')]
         IN IF e.accepted
            THEN /\ placed_boxes' = Append(placed_boxes, e.cand)
                 /\ Len(drawn') = Len(drawn) + 1
                 /\ drawn'[Len(drawn')].loc = e.loc
            ELSE /\ placed_boxes' = placed_boxes
                 /\ drawn' = drawn
    /\ kind' = kind =>
         /\ Len(placed_boxes') >= Len(placed_boxes)
         /\ SubSeq(placed_boxes', 1, Len(placed_boxes)) = placed_boxes

(* C14: the list of accepted boxes is empty as long as no location of the  *)
(* pass has been handled, in every pass of both programs; a rejected       *)
(* location leaves the list as it is and draws nothing; an accepted        *)
(* location appends exactly its candidate box and is drawn; within a pass  *)
(* no recorded box is removed or changed.                                  *)
C14_AcceptedListOnlyGrows == [][C14_Step]_vars

(* In the second pass of the min/max program, after the first pass saved   *)
(* its map, one location has been accepted and a later one rejected.       *)
C14_Witness ==
    /\ prog = "minmax"
    /\ kind = "max"
    /\ "mapa_baleares_min.png" \in saved
    /\ pc = "cities"
    /\ Len(log) >= 2
    /\ log[1].accepted
    /\ ~log[Len(log)].accepted
    /\ placed_boxes = <<log[1].cand>>
    /\ Len(drawn) = 1

(* Rectangle r lies inside rectangle q.                                    *)
Inside(r, q) ==
    q[1] <= r[1] /\ q[2] <= r[2] /\ r[3] <= q[3] /\ r[4] <= q[4]

(* C15: for every accepted label the badge and its drop shadow, as drawn,  *)
(* lie inside the box recorded for that label in the list of accepted      *)
(* boxes, whatever the font measures, and so the drawn badges of two       *)
(* accepted labels do not overlap.                                         *)
C15_DrawnBadgeInsideRecordedBox ==
    /\ Len(drawn) = Len(placed_boxes)
    /\ \A n \in 1..Len(drawn) :
         /\ Inside(drawn[n].badge, placed_boxes[n])
         /\ Inside(drawn[n].shadow, placed_boxes[n])
    /\ \A m, n \in 1..Len(drawn) :
         m < n => StrictlyApart(drawn[m].badge, drawn[n].badge)

(* The same statement for the min/max program alone, where draw_badge      *)
(* draws the rectangle it measured.                                        *)
C15_HoldsForDrawBadge == prog = "minmax" => C15_DrawnBadgeInsideRecordedBox

====
